---- MODULE Spec2Model ----
(***************************************************************************)
(* Model of ezproxyvisualiser.py: the section splitter, the six table      *)
(* parsers and the routing loop of main().                                 *)
(*                                                                         *)
(* Text representation.  A string is a non-empty sequence of lines (the    *)
(* lines are what lies between "\n" characters, so "" is <<<<>>>> and      *)
(* "a\n" is <<a, <<>>>>).  A line is a sequence of tokens; a token is      *)
(* either one whitespace character (" " or "\t") or a maximal run of       *)
(* non-whitespace characters.  String literals of the source are written   *)
(* as token sequences in the same way.  Substring and prefix tests are     *)
(* done on token sequences; the vocabulary below contains no token that is *)
(* a proper part of another token at a place where the source tests it.    *)
(***************************************************************************)
EXTENDS Integers, Sequences, FiniteSets, TLC

VARIABLES raw_text, sections, df_dict, calls, warned, pc, table_text, shape, df

vars == <<raw_text, sections, df_dict, calls, warned, pc, table_text, shape, df>>

(***************************************************************************)
(* Bounds                                                                  *)
(***************************************************************************)
MaxLines == 4
MaxRows == 3

(***************************************************************************)
(* Strings                                                                 *)
(***************************************************************************)
WS == {" ", "\t"}

EmptyStr == << <<>> >>

\* words joined by single spaces: the token form of a one-line literal
RECURSIVE Sp(_)
Sp(words) ==
    IF Len(words) <= 1 THEN words
    ELSE <<Head(words), " ">> \o Sp(Tail(words))

\* str.lower() on one token (identity on tokens without upper-case letters)
LowerTok(t) ==
    CASE t = "Report" -> "report"
      [] t = "AuditReport" -> "auditreport"
      [] t = "Audit" -> "audit"
      [] t = "KB" -> "kb"
      [] t = "Total" -> "total"
      [] t = "No" -> "no"
      [] t = "March" -> "march"
      [] t = "January" -> "january"
      [] t = "Login" -> "login"
      [] t = "Date" -> "date"
      [] t = "Username" -> "username"
      [] t = "User" -> "user"
      [] t = "Content" -> "content"
      [] t = "Provider" -> "provider"
      [] t = "WEB" -> "web"
      [] t = "SITE" -> "site"
      [] t = "DNS" -> "dns"
      [] t = "NAME" -> "name"
      [] t = "SPU" -> "spu"
      [] t = "Summary" -> "summary"
      [] t = "libX" -> "libx"
      [] t = "US" -> "us"
      [] t = "CA" -> "ca"
      [] t = "US-CA" -> "us-ca"
      [] OTHER -> t

\* str.lower() on a one-line string
Lower(line) == [i \in 1..Len(line) |-> LowerTok(line[i])]

\* line.startswith(prefix)
StartsWith(line, prefix) ==
    /\ Len(prefix) <= Len(line)
    /\ SubSeq(line, 1, Len(prefix)) = prefix

\* sub in line
Contains(line, sub) ==
    \E i \in 0..(Len(line) - Len(sub)) : SubSeq(line, i + 1, i + Len(sub)) = sub

IsBlank(line) == \A i \in 1..Len(line) : line[i] \in WS

\* str.strip() on a one-line string
StripLine(line) ==
    IF IsBlank(line) THEN <<>>
    ELSE LET a == CHOOSE i \in 1..Len(line) :
                     /\ line[i] \notin WS
                     /\ \A j \in 1..(i - 1) : line[j] \in WS
             b == CHOOSE i \in 1..Len(line) :
                     /\ line[i] \notin WS
                     /\ \A j \in (i + 1)..Len(line) : line[j] \in WS
         IN SubSeq(line, a, b)

\* str.lstrip() / str.rstrip() on a one-line string that is not blank
LStripLine(line) ==
    LET a == CHOOSE i \in 1..Len(line) :
                 /\ line[i] \notin WS
                 /\ \A j \in 1..(i - 1) : line[j] \in WS
    IN SubSeq(line, a, Len(line))

RStripLine(line) ==
    LET b == CHOOSE i \in 1..Len(line) :
                 /\ line[i] \notin WS
                 /\ \A j \in (i + 1)..Len(line) : line[j] \in WS
    IN SubSeq(line, 1, b)

\* str.strip() on a string of several lines: "\n" is whitespace too, so
\* blank lines at both ends go, then the blanks around what is left
StripText(text) ==
    IF \A i \in 1..Len(text) : IsBlank(text[i]) THEN EmptyStr
    ELSE LET a == CHOOSE i \in 1..Len(text) :
                     /\ ~IsBlank(text[i])
                     /\ \A j \in 1..(i - 1) : IsBlank(text[j])
             b == CHOOSE i \in 1..Len(text) :
                     /\ ~IsBlank(text[i])
                     /\ \A j \in (i + 1)..Len(text) : IsBlank(text[j])
         IN IF a = b THEN <<StripLine(text[a])>>
            ELSE <<LStripLine(text[a])>> \o SubSeq(text, a + 1, b - 1)
                     \o <<RStripLine(text[b])>>

\* str.splitlines(): a final line terminator opens no further line, and ""
\* has no lines
SplitLines(text) ==
    IF text[Len(text)] = <<>> THEN SubSeq(text, 1, Len(text) - 1) ELSE text

(***************************************************************************)
(* split_into_sections                                                     *)
(***************************************************************************)
\* header_pattern: the alternatives in the order of the source, each with the
\* literal text it starts with and whether .* follows.  Under re.VERBOSE the
\* unescaped blank of the first alternative is dropped, so that alternative
\* is AuditReport.*; the other alternatives escape their blanks.
header_pattern ==
    << [literal |-> <<"AuditReport">>, rest |-> TRUE],
       [literal |-> Sp(<<"Report", "of", "all", "logins">>), rest |-> TRUE],
       [literal |-> Sp(<<"Login", "summary">>), rest |-> TRUE],
       [literal |-> Sp(<<"All", "successful", "logins">>), rest |-> TRUE],
       [literal |-> Sp(<<"Report", "of", "all", "content">>), rest |-> TRUE],
       [literal |-> Sp(<<"Report", "Total", "KB">>), rest |-> TRUE],
       [literal |-> Sp(<<"No", "items", "found">>), rest |-> FALSE],
       [literal |-> Sp(<<"SPU", "Summary">>), rest |-> TRUE],
       [literal |-> Sp(<<"SPU", "Statistics", "Summary">>), rest |-> TRUE],
       [literal |-> Sp(<<"Method", "Summary">>), rest |-> TRUE] >>

\* the number of tokens header_pattern takes from the start of the line (the
\* first alternative that matches decides), 0 when the line does not match
HeaderMatchLen(line) ==
    LET hits == {a \in 1..Len(header_pattern) : StartsWith(line, header_pattern[a].literal)}
    IN IF hits = {} THEN 0
       ELSE LET a == CHOOSE h \in hits : \A g \in hits : h <= g
            IN IF header_pattern[a].rest THEN Len(line)
               ELSE Len(header_pattern[a].literal)

\* re.split(header_pattern, raw_text): <<text, header, text, header, ...>>,
\* built line by line.  cur is the text collected since the last header.
RECURSIVE re_split_from(_, _, _)
re_split_from(lines, k, cur) ==
    IF k > Len(lines) THEN <<cur>>
    ELSE LET line == lines[k]
             m == HeaderMatchLen(line)
         IN IF m > 0
            THEN \* the text before the match ends with the "\n" that ends
                 \* line k-1, i.e. with an empty last line (for k = 1 it is
                 \* the empty string)
                 <<(IF k = 1 THEN EmptyStr ELSE cur \o << <<>> >>),
                   SubSeq(line, 1, m)>>
                   \o re_split_from(lines, k + 1, <<SubSeq(line, m + 1, Len(line))>>)
            ELSE re_split_from(lines, k + 1,
                               IF k = 1 THEN <<line>> ELSE cur \o <<line>>)

re_split(text) == re_split_from(text, 1, EmptyStr)

PreFileText == <<"(pre-file", " ", "text)">>

\* DictSet as dict.setdefault would do it: an existing key keeps its value
DictSetKeepFirst(d, key, value) ==
    IF \E i \in 1..Len(d) : d[i].k = key
    THEN d
    ELSE Append(d, [k |-> key, v |-> value])

\* sections[key] = value on an insertion-ordered dict, kept as a sequence of
\* [k, v] entries: an existing key keeps its place and takes the new value
DictSet(d, key, value) ==
    IF \E i \in 1..Len(d) : d[i].k = key
    THEN [i \in 1..Len(d) |-> IF d[i].k = key THEN [k |-> key, v |-> value] ELSE d[i]]
    ELSE Append(d, [k |-> key, v |-> value])

DictKeys(d) == {d[i].k : i \in 1..Len(d)}

DictGet(d, key) == d[CHOOSE i \in 1..Len(d) : d[i].k = key].v

\* PreambleEntry with the test "if parts[0]:" in place of "if parts[0].strip():"
PreambleEntryUntested(parts) ==
    IF parts[1] # EmptyStr
    THEN [i \in 1..1 |-> [k |-> PreFileText, v |-> StripText(parts[1])]]
    ELSE <<>>

\* PreambleEntry storing parts[0] in place of parts[0].strip()
PreambleEntryUntrimmed(parts) ==
    IF StripText(parts[1]) # EmptyStr
    THEN [i \in 1..1 |-> [k |-> PreFileText, v |-> parts[1]]]
    ELSE <<>>

\* lines 36-38: the preamble entry
PreambleEntry(parts) ==
    IF StripText(parts[1]) # EmptyStr
    THEN DictSet(<<>>, PreFileText, StripText(parts[1]))
    ELSE <<>>

\* lines 40-44: for i in range(1, len(parts), 2), written with 1-based i
RECURSIVE PairSections(_, _, _)
PairSections(parts, i, secs) ==
    IF i > Len(parts) THEN secs
    ELSE LET header == StripLine(parts[i])
             content == IF i + 1 <= Len(parts) THEN StripText(parts[i + 1]) ELSE EmptyStr
         IN PairSections(parts, i + 2, DictSet(secs, header, content))

split_into_sections(text) ==
    LET parts == re_split(text)
    IN PairSections(parts, 2, PreambleEntry(parts))

(***************************************************************************)
(* Table parsers                                                           *)
(***************************************************************************)
\* the tokens \d+ matches, and their value under int() / pd.to_numeric
IntTokens == {"0", "1", "2", "3", "5", "12", "20", "9001"}

ToInt(t) ==
    CASE t = "0" -> 0
      [] t = "1" -> 1
      [] t = "2" -> 2
      [] t = "3" -> 3
      [] t = "5" -> 5
      [] t = "12" -> 12
      [] t = "20" -> 20
      [] t = "9001" -> 9001

\* the tokens \d+\.\d+ matches, and their value under pd.to_numeric, kept in
\* hundredths
DecimalTokens == {"123.45", "10.5"}

ToFloat(t) ==
    CASE t = "123.45" -> 12345
      [] t = "10.5" -> 1050

\* the tokens \d{4}-\d{2}-\d{2} and \d{2}:\d{2}:\d{2} match
DateTokens == {"2023-01-05"}

TimeTokens == {"08:30:00", "09:15:00"}

\* the maximal \S+ runs of a line, in order
Words(line) == SelectSeq(line, LAMBDA t : t \notin WS)

\* position of the n-th \S+ run of a line
RECURSIVE WordStart(_, _, _)
WordStart(line, n, from) ==
    IF line[from] \in WS THEN WordStart(line, n, from + 1)
    ELSE IF n = 1 THEN from
    ELSE WordStart(line, n - 1, from + 1)

\* the rest of the line from its n-th \S+ run on: what a final (.*) captures
\* after n-1 fields and the blanks that follow them
RestFrom(line, n) == SubSeq(line, WordStart(line, n, 1), Len(line))

RECURSIVE Flatten(_)
Flatten(ss) == IF ss = <<>> THEN <<>> ELSE Head(ss) \o Flatten(Tail(ss))

logins_regex(line) ==
    LET w == Words(line)
    IN IF /\ Len(w) >= 8
          /\ w[1] \in DateTokens
          /\ w[2] \in TimeTokens
       THEN <<[login_date |-> w[1], login_time |-> w[2], logout_date |-> w[3],
               logout_time |-> w[4], username |-> w[5], session |-> w[6],
               ip |-> w[7], geography |-> RestFrom(line, 8)]>>
       ELSE <<>>

logins_skip(line) ==
    \/ StartsWith(line, <<"Login", " ", "Date">>)
    \/ Contains(line, <<"Username">>)

login_summary_regex(line) ==
    LET w == Words(line)
    IN IF Len(w) = 3 /\ w[2] \in IntTokens /\ w[3] \in IntTokens
       THEN <<[username |-> w[1], successful |-> w[2], failures |-> w[3]]>>
       ELSE <<>>

login_summary_skip(line) ==
    \/ StartsWith(line, <<"Username">>)
    \/ StartsWith(line, <<"Login", " ", "summary">>)

multiple_geographies_regex(line) ==
    LET w == Words(line)
    IN IF Len(w) >= 4 /\ w[1] = "user" /\ w[3] \in IntTokens
       THEN <<[username |-> w[2], count |-> w[3], geographies |-> RestFrom(line, 4)]>>
       ELSE <<>>

multiple_geographies_skip(line) == StartsWith(Lower(line), <<"user", " ">>)

provider_access_regex(line) ==
    LET w == Words(line)
    IN IF /\ Len(w) = 4
          /\ w[2] \in DecimalTokens
          /\ w[3] \in IntTokens
          /\ w[4] \in IntTokens
       THEN <<[provider |-> w[1], kb |-> w[2], errors |-> w[3], total |-> w[4]]>>
       ELSE <<>>

provider_access_skip(line) ==
    \/ Contains(line, <<"Content", " ", "Provider">>)
    \/ Contains(line, <<"Total", " ", "KB">>)

kb_usage_regex(line) ==
    LET w == Words(line)
    IN IF Len(w) = 2 /\ w[2] \in DecimalTokens
       THEN <<[username |-> w[1], kb |-> w[2]]>>
       ELSE <<>>

kb_usage_skip(line) ==
    \/ StartsWith(Lower(line), <<"username">>)
    \/ Contains(line, <<"Total", " ", "KB">>)

spu_regex(line) ==
    LET w == Words(line)
    IN IF Len(w) = 3 /\ w[2] \in IntTokens /\ w[3] \in IntTokens
       THEN <<[dns |-> w[1], number_of_accesses |-> w[2], unknown_599 |-> w[3]]>>
       ELSE <<>>

header_markers ==
    << Sp(<<"WEB", "SITE", "DNS", "NAME">>),
       Sp(<<"NUMBER", "OF", "ACCESSES">>),
       Sp(<<"599/UNKNOWN", "ACCESSES">>) >>

spu_skip(line) ==
    \/ line = <<>>
    \/ \E h \in 1..Len(header_markers) :
           Contains(Lower(line), Lower(header_markers[h]))

\* regex.match(line) for the compiled pattern named regex: <<>> when the
\* line does not match, <<groupdict>> when it does
regex_match(regex, line) ==
    CASE regex = "logins_regex" -> logins_regex(line)
      [] regex = "login_summary_regex" -> login_summary_regex(line)
      [] regex = "multiple_geographies_regex" -> multiple_geographies_regex(line)
      [] regex = "provider_access_regex" -> provider_access_regex(line)
      [] regex = "kb_usage_regex" -> kb_usage_regex(line)
      [] regex = "spu_regex" -> spu_regex(line)

\* skip_func(line) for the predicate named skip_func
skip_call(skip_func, line) ==
    CASE skip_func = "logins_skip" -> logins_skip(line)
      [] skip_func = "login_summary_skip" -> login_summary_skip(line)
      [] skip_func = "multiple_geographies_skip" -> multiple_geographies_skip(line)
      [] skip_func = "provider_access_skip" -> provider_access_skip(line)
      [] skip_func = "kb_usage_skip" -> kb_usage_skip(line)
      [] skip_func = "spu_skip" -> spu_skip(line)

\* _parse_table_with_regex with "break" in place of dropping a line that does
\* not match: the rows after the first such line are lost
parse_table_stop_at_mismatch(text, regex, skip_func) ==
    LET lines == SplitLines(text)
        bad == {i \in 1..Len(lines) :
                  LET line == StripLine(lines[i])
                  IN /\ line # <<>>
                     /\ ~skip_call(skip_func, line)
                     /\ regex_match(regex, line) = <<>>}
        stop == IF bad = {} THEN Len(lines) + 1
                ELSE CHOOSE i \in bad : \A j \in bad : i <= j
    IN Flatten([i \in 1..(stop - 1) |->
                  LET line == StripLine(lines[i])
                  IN IF line = <<>> \/ skip_call(skip_func, line) THEN <<>>
                     ELSE regex_match(regex, line)])

\* _parse_table_with_regex
parse_table_with_regex(text, regex, skip_func) ==
    LET lines == SplitLines(text)
    IN Flatten([i \in 1..Len(lines) |->
                  LET line == StripLine(lines[i])
                  IN IF line = <<>> \/ skip_call(skip_func, line) THEN <<>>
                     ELSE regex_match(regex, line)])

parse_logins_table(text) ==
    parse_table_with_regex(text, "logins_regex", "logins_skip")

parse_login_summary_table(text) ==
    LET rows == parse_table_with_regex(text, "login_summary_regex", "login_summary_skip")
    IN [i \in 1..Len(rows) |->
          [rows[i] EXCEPT !.successful = ToInt(@), !.failures = ToInt(@)]]

parse_multiple_geographies_table(text) ==
    parse_table_with_regex(text, "multiple_geographies_regex", "multiple_geographies_skip")

parse_provider_access_table(text) ==
    LET rows == parse_table_with_regex(text, "provider_access_regex", "provider_access_skip")
    IN [i \in 1..Len(rows) |->
          [rows[i] EXCEPT !.kb = ToFloat(@), !.errors = ToInt(@), !.total = ToInt(@)]]

parse_kb_usage_by_user(text) ==
    LET rows == parse_table_with_regex(text, "kb_usage_regex", "kb_usage_skip")
    IN [i \in 1..Len(rows) |-> [rows[i] EXCEPT !.kb = ToFloat(@)]]

\* InsertByAccesses as an ascending stable sort read backwards would do it:
\* a row goes in front of the rows with the same count
InsertBeforeTies(sorted, row) ==
    LET n == Cardinality({i \in 1..Len(sorted) :
                            sorted[i].number_of_accesses > row.number_of_accesses})
    IN SubSeq(sorted, 1, n) \o <<row>> \o SubSeq(sorted, n + 1, Len(sorted))

\* sort_values("number_of_accesses", ascending=False, kind="mergesort"):
\* a stable sort, so a row goes behind every row whose count is not smaller
InsertByAccesses(sorted, row) ==
    LET n == Cardinality({i \in 1..Len(sorted) :
                            sorted[i].number_of_accesses >= row.number_of_accesses})
    IN SubSeq(sorted, 1, n) \o <<row>> \o SubSeq(sorted, n + 1, Len(sorted))

RECURSIVE sort_values(_, _)
sort_values(rows, sorted) ==
    IF rows = <<>> THEN sorted
    ELSE sort_values(Tail(rows), InsertByAccesses(sorted, Head(rows)))

parse_spu_summary_usage(text) ==
    LET rows == parse_table_with_regex(text, "spu_regex", "spu_skip")
        typed == [i \in 1..Len(rows) |->
                    [rows[i] EXCEPT !.number_of_accesses = ToInt(@),
                                    !.unknown_599 = ToInt(@)]]
    IN sort_values(typed, <<>>)

(***************************************************************************)
(* main: the routing loop                                                  *)
(***************************************************************************)
\* key_name None is written <<>>
parser_mapping ==
    << [kw |-> Sp(<<"report", "of", "all", "logins", "sorted", "by", "username">>),
        key_name |-> <<"Logins">>, parser |-> "parse_logins_table"],
       [kw |-> Sp(<<"login", "summary", "sorted", "by", "username">>),
        key_name |-> <<"LoginSummary">>, parser |-> "parse_login_summary_table"],
       [kw |-> Sp(<<"all", "successful", "logins", "coming", "from", "multiple", "geographies">>),
        key_name |-> <<"MultipleGeographies">>, parser |-> "parse_multiple_geographies_table"],
       [kw |-> Sp(<<"report", "of", "all", "content", "provider", "accesses",
                    "sorted", "by", "kb", "transferred">>),
        key_name |-> <<"ProviderAccess_byKB">>, parser |-> "parse_provider_access_table"],
       [kw |-> Sp(<<"report", "of", "all", "content", "provider", "accesses">>),
        key_name |-> <<"ProviderAccess">>, parser |-> "parse_provider_access_table"],
       [kw |-> Sp(<<"report", "total", "kb", "usage", "by", "user">>),
        key_name |-> <<>>, parser |-> "parse_kb_usage_by_user"],
       [kw |-> Sp(<<"spu", "summary", "sorted", "by", "usage">>),
        key_name |-> <<"SPUSummary_byUsage">>, parser |-> "parse_spu_summary_usage"] >>

\* parser_func(content)
parser_func(parser, content) ==
    CASE parser = "parse_logins_table" -> parse_logins_table(content)
      [] parser = "parse_login_summary_table" -> parse_login_summary_table(content)
      [] parser = "parse_multiple_geographies_table" -> parse_multiple_geographies_table(content)
      [] parser = "parse_provider_access_table" -> parse_provider_access_table(content)
      [] parser = "parse_kb_usage_by_user" -> parse_kb_usage_by_user(content)
      [] parser = "parse_spu_summary_usage" -> parse_spu_summary_usage(content)

\* header_keyword in sec_header.lower()
KeywordInHeader(header_keyword, sec_header) ==
    Contains(Lower(sec_header), header_keyword)

\* StoreFrame without the test "if not df.empty"
StoreFrameAlways(dict, key_name, sec_header, frame) ==
    DictSet(dict,
            IF key_name # <<>> THEN key_name ELSE <<"KBUsage_">> \o sec_header,
            frame)

\* lines 338-340: a frame that is not empty is stored under its key
StoreFrame(dict, key_name, sec_header, frame) ==
    IF frame # <<>>
    THEN DictSet(dict,
                 IF key_name # <<>> THEN key_name ELSE <<"KBUsage_">> \o sec_header,
                 frame)
    ELSE dict

\* lines 335-341: the inner loop for rule r; the first section whose header
\* holds the keyword is parsed and the loop breaks.  st.calls records each
\* call of parser_func.
RouteRule(r, secs, st) ==
    LET rule == parser_mapping[r]
        hits == {i \in 1..Len(secs) : KeywordInHeader(rule.kw, secs[i].k)}
    IN IF hits = {} THEN st
       ELSE LET i == CHOOSE h \in hits : \A g \in hits : h <= g
                frame == parser_func(rule.parser, secs[i].v)
            IN [df_dict |-> StoreFrame(st.df_dict, rule.key_name, secs[i].k, frame),
                calls |-> Append(st.calls, [rule |-> r, header |-> secs[i].k,
                                            rows |-> Len(frame)])]

\* lines 333-341: the outer loop over parser_mapping
RECURSIVE RouteFrom(_, _, _)
RouteFrom(r, secs, st) ==
    IF r > Len(parser_mapping) THEN st
    ELSE RouteFrom(r + 1, secs, RouteRule(r, secs, st))

(***************************************************************************)
(* Inputs                                                                  *)
(***************************************************************************)
HeaderByKB == Sp(<<"Report", "of", "all", "content", "provider", "accesses",
                   "sorted", "by", "KB", "transferred">>)

HeaderProvider == Sp(<<"Report", "of", "all", "content", "provider", "accesses">>)

HeaderKBUsage == Sp(<<"Report", "Total", "KB", "usage", "by", "user">>)

HeaderKBUsageJan == Sp(<<"Report", "Total", "KB", "usage", "by", "user", "January">>)

HeaderAudit == Sp(<<"Audit", "Report", "March">>)

HeaderAuditJoined == Sp(<<"AuditReport", "March">>)

HeaderNoItems == Sp(<<"No", "items", "found", "today">>)

RowProvider == Sp(<<"libX", "123.45", "2", "9001">>)

RowProviderShort == Sp(<<"libX", "123.45", "2">>)

RowKBUsage == Sp(<<"alice", "10.5">>)

RowGeo == Sp(<<"user", "alice", "3", "US", "CA">>)

RowGeoTab == <<"user", "\t", "bob", " ", "2", " ", "US">>

RowSpuB == Sp(<<"site-b", "5", "0">>)

RowSpuA == <<" ", "site-a", " ", " ", "20", " ", "1">>

RowSpuC == Sp(<<"site-c", "20", "2">>)

RowLogin == Sp(<<"2023-01-05", "08:30:00", "2023-01-05", "09:15:00", "alice",
                 "sess123", "10.0.0.5", "US-CA">>)

EchoProvider == Sp(<<"Content", "Provider", "Total", "KB">>)

EchoSpu == Sp(<<"web", "site", "dns", "name">>)

EchoUsername == Sp(<<"Username", "12", "3">>)

BlankLine == <<" ">>

DocLines == {HeaderByKB, HeaderProvider, HeaderKBUsage, HeaderKBUsageJan,
             HeaderAudit, HeaderAuditJoined, HeaderNoItems,
             RowProvider, RowKBUsage, BlankLine}

TableLines == {RowProvider, RowProviderShort, RowKBUsage, RowGeo, RowGeoTab,
               RowSpuB, RowSpuA, RowSpuC, RowLogin,
               EchoProvider, EchoSpu, EchoUsername, BlankLine}

TextsOver(lines, n) == UNION {[1..m -> lines] : m \in 1..n}

(***************************************************************************)
(* The pipeline of main() on one uploaded document                         *)
(***************************************************************************)
Init ==
    /\ raw_text \in {EmptyStr} \cup TextsOver(DocLines, MaxLines)
    /\ sections = <<>>
    /\ df_dict = <<>>
    /\ calls = <<>>
    /\ warned = FALSE
    /\ pc = "uploaded"
    /\ table_text = EmptyStr
    /\ shape = "none"
    /\ df = <<>>

\* line 319
Split ==
    /\ pc = "uploaded"
    /\ sections' = split_into_sections(raw_text)
    /\ pc' = "split"
    /\ UNCHANGED <<raw_text, df_dict, calls, warned, table_text, shape, df>>

\* lines 333-341
Route ==
    /\ pc = "split"
    /\ LET st == RouteFrom(1, sections, [df_dict |-> <<>>, calls |-> <<>>])
       IN /\ df_dict' = st.df_dict
          /\ calls' = st.calls
    /\ pc' = "routed"
    /\ UNCHANGED <<raw_text, sections, warned, table_text, shape, df>>

\* lines 343-344
Warn ==
    /\ pc = "routed"
    /\ df_dict = <<>>
    /\ warned' = TRUE
    /\ pc' = "done"
    /\ UNCHANGED <<raw_text, sections, df_dict, calls, table_text, shape, df>>

\* lines 345-347
Display ==
    /\ pc = "routed"
    /\ df_dict # <<>>
    /\ pc' = "done"
    /\ UNCHANGED <<raw_text, sections, df_dict, calls, warned, table_text, shape, df>>

Next == Split \/ Route \/ Warn \/ Display

Spec == Init /\ [][Next]_vars

(***************************************************************************)
(* One table parser applied to one section body                            *)
(***************************************************************************)
InitParse ==
    /\ raw_text = EmptyStr
    /\ sections = <<>>
    /\ df_dict = <<>>
    /\ calls = <<>>
    /\ warned = FALSE
    /\ pc = "table"
    /\ table_text \in {EmptyStr} \cup TextsOver(TableLines, MaxRows)
    /\ shape = "none"
    /\ df = <<>>

Parse(name) ==
    /\ pc = "table"
    /\ df' = parser_func(name, table_text)
    /\ shape' = name
    /\ pc' = "parsed"
    /\ UNCHANGED <<raw_text, sections, df_dict, calls, warned, table_text>>

ParseLogins == Parse("parse_logins_table")

ParseLoginSummary == Parse("parse_login_summary_table")

ParseMultipleGeographies == Parse("parse_multiple_geographies_table")

ParseProviderAccess == Parse("parse_provider_access_table")

ParseKBUsage == Parse("parse_kb_usage_by_user")

ParseSpuSummary == Parse("parse_spu_summary_usage")

NextParse ==
    \/ ParseLogins
    \/ ParseLoginSummary
    \/ ParseMultipleGeographies
    \/ ParseProviderAccess
    \/ ParseKBUsage
    \/ ParseSpuSummary

SpecParse == InitParse /\ [][NextParse]_vars

(***************************************************************************)
(* Properties                                                              *)
(***************************************************************************)
Routed == pc \in {"routed", "done"}

\* the lines of the document at which header_pattern matches
HeaderLineIdx == {i \in 1..Len(raw_text) : HeaderMatchLen(raw_text[i]) > 0}

\* the trimmed header matched at line i
HeaderAt(i) == StripLine(SubSeq(raw_text[i], 1, HeaderMatchLen(raw_text[i])))

\* the trimmed text between the header matched at line i and the next
\* matched header (or the end of the document)
BodyAfter(i) ==
    LET later == {j \in (i + 1)..Len(raw_text) : HeaderMatchLen(raw_text[j]) > 0}
        stop == IF later = {} THEN Len(raw_text) + 1
                ELSE CHOOSE j \in later : \A g \in later : j <= g
    IN StripText(<<SubSeq(raw_text[i], HeaderMatchLen(raw_text[i]) + 1, Len(raw_text[i]))>>
                 \o SubSeq(raw_text, i + 1, stop - 1))

\* the trimmed text before the first matched header
Preamble ==
    LET idx == HeaderLineIdx
        first == IF idx = {} THEN Len(raw_text) + 1
                 ELSE CHOOSE j \in idx : \A g \in idx : j <= g
    IN IF first = 1 THEN EmptyStr ELSE StripText(SubSeq(raw_text, 1, first - 1))

EntriesFor(d, key) == {i \in 1..Len(d) : d[i].k = key}

\* C1: a section whose header contains "report of all content provider
\* accesses sorted by kb transferred" is parsed into a dataset only by rule
\* 4 (ProviderAccess_byKB), and rule 5 (ProviderAccess) builds its dataset
\* only from a section whose header does not contain "sorted by kb".
C1_HeaderClaimedByOneRule ==
    Routed =>
        \A n \in 1..Len(calls) :
            calls[n].rows > 0 =>
                /\ KeywordInHeader(parser_mapping[4].kw, calls[n].header)
                       => calls[n].rule = 4
                /\ calls[n].rule = 5
                       => /\ KeywordInHeader(parser_mapping[5].kw, calls[n].header)
                          /\ ~KeywordInHeader(<<"sorted", " ", "by", " ", "kb">>, calls[n].header)

\* C2: every section whose header contains "report total kb usage by user"
\* and whose body parses to at least one record has its own dataset
\* "KBUsage_" + header in the final collection.
C2_EveryKBUsageSectionKept ==
    Routed =>
        \A i \in 1..Len(sections) :
            /\ KeywordInHeader(parser_mapping[6].kw, sections[i].k)
            /\ parse_kb_usage_by_user(sections[i].v) # <<>>
            => /\ (<<"KBUsage_">> \o sections[i].k) \in DictKeys(df_dict)
               /\ DictGet(df_dict, <<"KBUsage_">> \o sections[i].k)
                      = parse_kb_usage_by_user(sections[i].v)

\* C3: every line that begins with "Audit Report" is a key of the mapping
\* (trimmed), and is not part of the preamble entry.
C3_AuditReportIsHeader ==
    pc = "split" =>
        \A i \in 1..Len(raw_text) :
            StartsWith(raw_text[i], <<"Audit", " ", "Report">>)
            => /\ StripLine(raw_text[i]) \in DictKeys(sections)
               /\ PreFileText \in DictKeys(sections)
                      => \A j \in 1..Len(DictGet(sections, PreFileText)) :
                             DictGet(sections, PreFileText)[j] # StripLine(raw_text[i])

\* C4: a header that is matched more than once in the document has exactly
\* one entry in the mapping split_into_sections returns, and its value is
\* the trimmed body that follows its last occurrence.
C4_LastOccurrenceWins ==
    pc = "split" =>
        LET idx == HeaderLineIdx
            hdr == [i \in idx |-> HeaderAt(i)]
        IN \A i \in idx :
               LET same == {j \in idx : hdr[j] = hdr[i]}
                   last == CHOOSE j \in same : \A g \in same : g <= j
               IN Cardinality(same) > 1
                  => /\ Cardinality(EntriesFor(sections, hdr[i])) = 1
                     /\ DictGet(sections, hdr[i]) = BodyAfter(last)

\* a header occurs twice, with a body after the first occurrence that differs
\* from the body after the last
C4_Witness ==
    /\ pc = "split"
    /\ \E i, j \in HeaderLineIdx :
           /\ i < j
           /\ HeaderAt(i) = HeaderAt(j)
           /\ \A g \in HeaderLineIdx : HeaderAt(g) = HeaderAt(i) => g <= j
           /\ BodyAfter(i) # EmptyStr
           /\ BodyAfter(i) # BodyAfter(j)
           /\ DictGet(sections, HeaderAt(i)) = BodyAfter(j)

\* C5: a document in which no line matches header_pattern gives a mapping
\* with at most one entry, the preamble under "(pre-file text)", present
\* exactly when the trimmed document is not empty; routing that mapping
\* calls no parser and leaves the collection empty.
C5_NoHeaderNoDataset ==
    (pc # "uploaded" /\ HeaderLineIdx = {}) =>
        /\ Len(sections) <= 1
        /\ \A i \in 1..Len(sections) : sections[i].k = PreFileText
        /\ (sections # <<>>) <=> (StripText(raw_text) # EmptyStr)
        /\ Routed => calls = <<>> /\ df_dict = <<>>

\* a routed document without any matched header but with a preamble
C5_Witness ==
    /\ pc = "done"
    /\ HeaderLineIdx = {}
    /\ Len(sections) = 1
    /\ Len(raw_text) > 1

\* C9: no dataset of the collection is empty; the advisory is given exactly
\* when the collection is empty, which is exactly when every parser that
\* was run gave zero rows (in particular when no header matched a rule).
C9_AdvisoryIffEmpty ==
    /\ Routed =>
           /\ \A i \in 1..Len(df_dict) : df_dict[i].v # <<>>
           /\ (df_dict = <<>>) <=> (\A n \in 1..Len(calls) : calls[n].rows = 0)
           /\ (\A i \in 1..Len(sections) : \A r \in 1..Len(parser_mapping) :
                   ~KeywordInHeader(parser_mapping[r].kw, sections[i].k))
              => df_dict = <<>>
    /\ pc = "done" => (warned <=> df_dict = <<>>)
    /\ pc # "done" => ~warned

\* the advisory after a parser was run on a section and gave no row
C9_Witness ==
    /\ pc = "done"
    /\ warned
    /\ calls # <<>>
    /\ \E i \in 1..Len(sections) :
           sections[i].k = HeaderProvider /\ sections[i].v # EmptyStr

\* C10: the mapping split_into_sections returns has the key "(pre-file
\* text)" iff the trimmed text before the first matched header is not empty,
\* its value is that text, and no matched header equals that key.
C10_PreambleEntry ==
    pc = "split" =>
        LET pre == Preamble
        IN /\ (PreFileText \in DictKeys(sections)) <=> (pre # EmptyStr)
           /\ PreFileText \in DictKeys(sections)
                  => /\ DictGet(sections, PreFileText) = pre
                     /\ Cardinality(EntriesFor(sections, PreFileText)) = 1
           /\ \A i \in HeaderLineIdx : HeaderAt(i) # PreFileText

\* a preamble of two lines, the second blank, followed by sections
C10_Witness ==
    /\ pc = "split"
    /\ HeaderLineIdx # {}
    /\ Len(sections) >= 2
    /\ PreFileText \in DictKeys(sections)
    /\ Len(raw_text) >= 3
    /\ IsBlank(raw_text[2])
    /\ 1 \notin HeaderLineIdx /\ 2 \notin HeaderLineIdx

\* the trimmed lines of the body handed to the parser
BodyLines ==
    LET lines == SplitLines(table_text)
    IN [i \in 1..Len(lines) |-> StripLine(lines[i])]

\* a trimmed line of the form  user <username> <count:digits> <geographies>
IsGeoRow(line) ==
    /\ Len(Words(line)) >= 4
    /\ Words(line)[1] = "user"
    /\ Words(line)[3] \in IntTokens

\* C6: the MultipleGeographies parser gives exactly one record per trimmed
\* line of the form  user <username> <count> <geographies>, with the three
\* fields taken from that line, in the order of the lines.
C6_GeoRowGivesRecord ==
    shape = "parse_multiple_geographies_table" =>
        LET rowLines == SelectSeq(BodyLines, IsGeoRow)
        IN /\ Len(df) = Len(rowLines)
           /\ \A i \in 1..Len(rowLines) :
                  /\ df[i].username = Words(rowLines[i])[2]
                  /\ df[i].count = Words(rowLines[i])[3]
                  /\ df[i].geographies = RestFrom(rowLines[i], 4)

\* a trimmed line of the form  dns <accesses:digits> <unknown:digits>
IsSpuRow(line) ==
    /\ Len(Words(line)) = 3
    /\ Words(line)[2] \in IntTokens
    /\ Words(line)[3] \in IntTokens

SpuRecord(line) ==
    [dns |-> Words(line)[1],
     number_of_accesses |-> ToInt(Words(line)[2]),
     unknown_599 |-> ToInt(Words(line)[3])]

Orderings(n) ==
    {p \in [1..n -> 1..n] : \A i, j \in 1..n : p[i] = p[j] => i = j}

\* C7: the SPU parser's output is a permutation of the records of the lines
\* that match the row grammar, in descending order of number_of_accesses,
\* records of equal number_of_accesses keeping the order of their lines.
C7_SpuSortedStable ==
    shape = "parse_spu_summary_usage" =>
        LET rowLines == SelectSeq(BodyLines, IsSpuRow)
            n == Len(rowLines)
        IN /\ Len(df) = n
           /\ \E p \in Orderings(n) :
                  /\ \A i \in 1..n : df[i] = SpuRecord(rowLines[p[i]])
                  /\ \A i, j \in 1..n :
                         i < j =>
                             \/ df[i].number_of_accesses > df[j].number_of_accesses
                             \/ /\ df[i].number_of_accesses = df[j].number_of_accesses
                                /\ p[i] < p[j]

\* three rows, the first with the smallest count and the other two tied
C7_Witness ==
    /\ shape = "parse_spu_summary_usage"
    /\ Len(df) = 3
    /\ df[1].number_of_accesses = df[2].number_of_accesses
    /\ df[1] # df[2]
    /\ df[3].number_of_accesses < df[2].number_of_accesses
    /\ SelectSeq(BodyLines, IsSpuRow)[1] = RowSpuB

\* a trimmed line of the form  provider kb(decimal) errors(int) total(int)
IsProviderRow(line) ==
    /\ Len(Words(line)) = 4
    /\ Words(line)[2] \in DecimalTokens
    /\ Words(line)[3] \in IntTokens
    /\ Words(line)[4] \in IntTokens

\* C8: the ProviderAccess parser gives one record, with the four fields of
\* the line, for every line of the four-field form and nothing for any other
\* line; every record has the fields provider, kb, errors and total.
C8_ProviderRowsOnly ==
    shape = "parse_provider_access_table" =>
        LET rowLines == SelectSeq(BodyLines, IsProviderRow)
        IN /\ Len(df) = Len(rowLines)
           /\ \A i \in 1..Len(df) :
                  /\ DOMAIN df[i] = {"provider", "kb", "errors", "total"}
                  /\ df[i].provider = Words(rowLines[i])[1]
                  /\ df[i].kb = ToFloat(Words(rowLines[i])[2])
                  /\ df[i].errors = ToInt(Words(rowLines[i])[3])
                  /\ df[i].total = ToInt(Words(rowLines[i])[4])

\* a line without its last integer between two complete lines
C8_Witness ==
    /\ shape = "parse_provider_access_table"
    /\ Len(table_text) = 3
    /\ table_text[1] = RowProvider
    /\ table_text[2] = RowProviderShort
    /\ table_text[3] = RowProvider
    /\ Len(df) = 2

====
